---- MODULE Spec2Model ----
(***************************************************************************)
(* A model of main.py (20-digit barcode gate): the shared validation       *)
(* engine over the barcode directory tree, the threaded TCP server, and    *)
(* the client's scan loop, as run on the designated server machine, where  *)
(* the server process and the client process share one filesystem and     *)
(* each holds its own copy of VALID_SPECIAL_KEYS.                          *)
(*                                                                         *)
(* Text is modelled as a sequence of one-character strings, a path below   *)
(* BARCODE_DIR as a sequence of names.                                     *)
(***************************************************************************)
EXTENDS Integers, Sequences, FiniteSets, TLC

VARIABLES
    dirs,       \* directories below BARCODE_DIR (paths; << >> is BARCODE_DIR itself)
    files,      \* regular files below BARCODE_DIR (paths)
    keys,       \* VALID_SPECIAL_KEYS of each process
    last,       \* observation: the most recent operation, with the state it started from
    hpc,        \* handler thread -> position in handle()
    hloc,       \* handler thread -> its locals
    opened,     \* observation: number of "open" replies per barcode sent with override False
    gpio,       \* which of self.gate / self.config_button Client.__init__ could set up
    pressed,    \* the config button is held down
    pressed_at, \* observation: when the button went down (<< >> while it is up)
    queue,      \* the multiprocessing.Queue from the reader process
    last_barcode,            \* Client.start: None is << >>, a text t is <<t>>
    button_held_start_time,  \* Client.start: None is << >>, a time t is <<t>>
    db_deleted_this_hold,    \* Client.start
    now,        \* time.time(), in seconds since the client started
    cpc,        \* position of the client's loop: "scan" (line 290) or "hold" (line 308)
    fx,         \* observation: what the loop did with the scan it handled last
    device,     \* the scanner: "absent", "ok", or "faulty" (found, but its I/O raises)
    dev,        \* reader_process: the device object is held (FALSE is None)
    rpc,        \* reader_process: "acquire" (line 247), "setup" (254), "read" (261)
    barcode_chars,  \* reader_process
    received,   \* observation: the digit reports read since the last Enter or setup
    report      \* observation: what the reader did last, and the report it read

fsvars == <<dirs, files, keys>>
srvvars == <<last, hpc, hloc, opened>>
clivars == <<gpio, pressed, pressed_at, queue, last_barcode, button_held_start_time,
             db_deleted_this_hold, now, cpc, fx>>
rdrvars == <<device, dev, rpc, barcode_chars, received, report>>
vars == <<fsvars, srvvars, clivars, rdrvars>>

----------------------------------------------------------------------------
(* Bounds of the model *)

\* how many "open" answers to one request text are counted before the count saturates
MaxOpened == 2

\* how many scanned barcodes wait in the queue at most
MaxQueue == 1

\* the clock stops here
MaxTime == 10

\* the digits the reader accumulates before an Enter
MaxChars == 2

----------------------------------------------------------------------------
(* Configuration, main.py lines 28-33 *)

MASTER_KEY_PREFIX == <<"1","2","3","4","5","6","7","8","0">>
MASTER_KEY_SUFFIX == <<"1","2","3","4","5","6","7","8">>

SoundsName == <<"s","o","u","n","d","s">>
MainPyName == <<"m","a","i","n",".","p","y">>
InstallShName == <<"i","n","s","t","a","l","l",".","s","h">>
RequirementsName == <<"r","e","q","u","i","r","e","m","e","n","t","s",".","t","x","t">>
InstallGuideName ==
    <<"i","n","s","t","a","l","l"," ","g","u","i","d","e"," ",
      "b","a","r","c","o","d","e",".","t","x","t">>

FILES_TO_KEEP ==
    {SoundsName, MainPyName, InstallShName, RequirementsName, InstallGuideName}

\* the hold that triggers the wipe, in seconds (line 313)
HOLD_SECONDS == 10

\* the keycode of Enter (line 264)
ENTER_KEYCODE == 40

\* the seed of VALID_SPECIAL_KEYS: one empty string
SeedKeys == { << >> }

Procs == {"client", "server"}

----------------------------------------------------------------------------
(* Python text primitives used by the code *)

AsciiDigits == {"0","1","2","3","4","5","6","7","8","9"}

\* Characters outside 0-9 for which str.isdigit() is true (Unicode Numeric_Type
\* Digit, e.g. SUPERSCRIPT TWO); str.isdecimal() is false for them.
OtherUnicodeDigits == {"²"}

\* str.isdigit(): non-empty and every character is a Unicode digit
IsDigit(s) == Len(s) > 0 /\ \A i \in 1..Len(s) : s[i] \in AsciiDigits \cup OtherUnicodeDigits

\* s[a:b] for 0 <= a, with b counted from the start (Python slice, 0-based, end exclusive)
Slice(s, a, b) == SubSeq(s, a + 1, IF b > Len(s) THEN Len(s) ELSE b)

StartsWith(s, p) == Len(s) >= Len(p) /\ SubSeq(s, 1, Len(p)) = p
EndsWith(s, p) == Len(s) >= Len(p) /\ SubSeq(s, Len(s) - Len(p) + 1, Len(s)) = p

\* barcode.startswith(MASTER_KEY_PREFIX) and barcode.endswith(MASTER_KEY_SUFFIX)
IsMasterKey(barcode) ==
    StartsWith(barcode, MASTER_KEY_PREFIX) /\ EndsWith(barcode, MASTER_KEY_SUFFIX)

TxtSuffix == <<".","t","x","t">>

----------------------------------------------------------------------------
(* The filesystem below BARCODE_DIR *)

\* os.path.exists / os.path.isdir
PathExists(d, f, p) == p \in d \/ p \in f
IsDir(d, p) == p \in d

\* the environment fault that makes the mkdir call for path component n raise
MkdirFault == <<"oserror_mkdir1", "oserror_mkdir2", "oserror_mkdir3">>

\* the mkdir calls os.makedirs(path, exist_ok=True) makes, top down, from component
\* n on; a call raises OSError on its fault, or when the name is a regular file
RECURSIVE MakedirsFrom(_, _, _, _, _)
MakedirsFrom(d, f, path, n, fault) ==
    IF n > Len(path) THEN [ok |-> TRUE, dirs |-> d]
    ELSE LET p == SubSeq(path, 1, n)
         IN  IF p \in d THEN MakedirsFrom(d, f, path, n + 1, fault)
             ELSE IF p \in f \/ (n <= Len(MkdirFault) /\ fault = MkdirFault[n])
                  THEN [ok |-> FALSE, dirs |-> d]
                  ELSE MakedirsFrom(d \cup {p}, f, path, n + 1, fault)

Makedirs(d, f, path, fault) == MakedirsFrom(d \cup {<< >>}, f, path, 1, fault)

\* open(p, "w"): creates or truncates the file; OSError when p is a directory,
\* when its parent is no directory, or when the environment fails the call
OpenW(d, f, p, fault) ==
    IF fault = "oserror_open" \/ p \in d \/ SubSeq(p, 1, Len(p) - 1) \notin d
    THEN [ok |-> FALSE, files |-> f]
    ELSE [ok |-> TRUE, files |-> f \cup {p}]

----------------------------------------------------------------------------
(* Shared validation logic, main.py lines 44-107 *)

\* lines 49-55, after os.makedirs returned or raised (md): open(..., "w"), and the
\* return value
WriteMarker(md, f, file, fault) ==
    IF ~md.ok THEN [res |-> FALSE, dirs |-> md.dirs, files |-> f]
    ELSE [res |-> OpenW(md.dirs, f, file, fault).ok, dirs |-> md.dirs,
          files |-> OpenW(md.dirs, f, file, fault).files]

\* a bug: the registry directory is emptied before the marker file is written
CreateBarcodeFile_Recreate(d, f, site_id, special_key, registry_id, numerator, fault) ==
    WriteMarker(Makedirs(d, f, <<site_id, special_key, registry_id>>, fault),
                {p \in f : SubSeq(p, 1, Len(p) - 1) # <<site_id, special_key, registry_id>>},
                <<site_id, special_key, registry_id, numerator \o TxtSuffix>>, fault)

\* create_barcode_file: makedirs, then open(..., "w"); False on OSError
CreateBarcodeFile(d, f, site_id, special_key, registry_id, numerator, fault) ==
    WriteMarker(Makedirs(d, f, <<site_id, special_key, registry_id>>, fault), f,
                <<site_id, special_key, registry_id, numerator \o TxtSuffix>>, fault)

\* the fields of a barcode, lines 64-67
SpecialKeyOf(barcode) == Slice(barcode, 0, 5)
NumeratorOf(barcode) == Slice(barcode, 5, 15)
RegistryOf(barcode) == Slice(barcode, 15, 17)
SiteOf(barcode) == Slice(barcode, 17, 20)

\* barcode[len(MASTER_KEY_PREFIX):-len(MASTER_KEY_SUFFIX)], line 72
SiteFromMaster(barcode) ==
    Slice(barcode, Len(MASTER_KEY_PREFIX), Len(barcode) - Len(MASTER_KEY_SUFFIX))

\* the marker file of a barcode, lines 84-85 and 102
BarcodeFilePath(barcode) ==
    <<SiteOf(barcode), SpecialKeyOf(barcode), RegistryOf(barcode),
      NumeratorOf(barcode) \o TxtSuffix>>

\* The result of process_barcode_locally before its call of create_barcode_file:
\* "deny" / "admit" are its return value, "create" means that it goes on to return
\* create_barcode_file(...); ks is VALID_SPECIAL_KEYS of the calling process.

\* lines 71-79: a master key is admitted iff the directory of its site exists
MasterKeyMode(barcode, d, ks) ==
    [verdict |-> IF IsDir(d, <<SiteFromMaster(barcode)>>) THEN "admit" ELSE "deny",
     keys |-> ks]

\* a bug: the override branch is taken only for a special key that is already known
OverrideMode_KnownKeyOnly(barcode, d, f, ks) ==
    IF SpecialKeyOf(barcode) \notin ks THEN [verdict |-> "deny", keys |-> ks]
    ELSE IF ~PathExists(d, f, BarcodeFilePath(barcode))
         THEN [verdict |-> "create", keys |-> ks]
         ELSE [verdict |-> "admit", keys |-> ks]

\* lines 82-91: manual override
OverrideMode(barcode, d, f, ks) ==
    IF ~PathExists(d, f, BarcodeFilePath(barcode))
    THEN [verdict |-> "create", keys |-> ks \cup {SpecialKeyOf(barcode)}]
    ELSE [verdict |-> "admit", keys |-> ks]

\* a bug: the check for an already logged numerator (lines 102-105) is left out
NormalMode_NoReplayCheck(barcode, d, f, ks) ==
    IF ~IsDir(d, <<SiteOf(barcode)>>) THEN [verdict |-> "deny", keys |-> ks]
    ELSE IF SpecialKeyOf(barcode) \notin ks THEN [verdict |-> "deny", keys |-> ks]
    ELSE [verdict |-> "create", keys |-> ks]

\* lines 93-107: the site must exist, the key be known, the numerator be new
NormalMode(barcode, d, f, ks) ==
    IF ~IsDir(d, <<SiteOf(barcode)>>) THEN [verdict |-> "deny", keys |-> ks]
    ELSE IF SpecialKeyOf(barcode) \notin ks THEN [verdict |-> "deny", keys |-> ks]
    ELSE IF PathExists(d, f, BarcodeFilePath(barcode)) THEN [verdict |-> "deny", keys |-> ks]
    ELSE [verdict |-> "create", keys |-> ks]

\* lines 60-107 in their order: format, master key, override, normal mode
Validate(barcode, button_is_pressed, d, f, ks) ==
    IF Len(barcode) # 20 \/ ~IsDigit(barcode) THEN [verdict |-> "deny", keys |-> ks]
    ELSE IF IsMasterKey(barcode) THEN MasterKeyMode(barcode, d, ks)
    ELSE IF button_is_pressed THEN OverrideMode(barcode, d, f, ks)
    ELSE NormalMode(barcode, d, f, ks)

\* the return value and the state after the validation v took its course
Returned(v, barcode, d, f, fault) ==
    IF v.verdict = "create"
    THEN CreateBarcodeFile(d, f, SiteOf(barcode), SpecialKeyOf(barcode),
                           RegistryOf(barcode), NumeratorOf(barcode), fault)
         @@ [keys |-> v.keys]
    ELSE [res |-> v.verdict = "admit", dirs |-> d, files |-> f, keys |-> v.keys]

\* process_barcode_locally as one call
ProcessBarcodeLocally(barcode, button_is_pressed, d, f, ks, fault) ==
    Returned(Validate(barcode, button_is_pressed, d, f, ks), barcode, d, f, fault)

----------------------------------------------------------------------------
(* Server: the request handler, main.py lines 121-137 *)

Whitespace == {" ", "\t", "\n", "\r"}

\* a byte sequence that is not valid UTF-8 is modelled by one such token
InvalidByte == "<0xFF>"

RECURSIVE LStrip(_)
LStrip(s) == IF s # << >> /\ Head(s) \in Whitespace THEN LStrip(Tail(s)) ELSE s

RECURSIVE RStrip(_)
RStrip(s) ==
    IF s # << >> /\ s[Len(s)] \in Whitespace THEN RStrip(SubSeq(s, 1, Len(s) - 1)) ELSE s

\* bytes.strip()
Strip(s) == RStrip(LStrip(s))

\* bytes.decode("utf-8") raises UnicodeDecodeError
DecodeFails(s) == \E i \in 1..Len(s) : s[i] = InvalidByte

\* str.split(':'): the list of the parts between the colons
RECURSIVE SplitFrom(_, _, _)
SplitFrom(s, i, part) ==
    IF i > Len(s) THEN <<part>>
    ELSE IF s[i] = ":" THEN <<part>> \o SplitFrom(s, i + 1, << >>)
    ELSE SplitFrom(s, i + 1, Append(part, s[i]))

Split(s) == SplitFrom(s, 1, << >>)

TrueText == <<"T","r","u","e">>
FalseText == <<"F","a","l","s","e">>
NoneText == <<"N","o","n","e">>

\* handle() from recv to the call of process_barcode_locally: what the request
\* asks for, or that the handler returns / raises before validating
ParseRequest(data) ==
    LET message == Strip(data)
        parts   == Split(message)
    IN  IF DecodeFails(message) THEN [ok |-> FALSE, barcode |-> << >>, button |-> FALSE]
        ELSE IF message = << >> THEN [ok |-> FALSE, barcode |-> << >>, button |-> FALSE]
        ELSE [ok |-> TRUE, barcode |-> parts[1],
              button |-> Len(parts) > 1 /\ parts[2] = TrueText]

\* the reply sent for a validation result; "" is a connection closed without a reply
ReplyFor(is_valid) == IF is_valid THEN "open" ELSE "close"

\* lines 134-135: the reply for the result r of process_barcode_locally
Replied(r) == r @@ [reply |-> ReplyFor(r.res)]

\* handle() after the request is parsed, as one step on the server's filesystem
\* and VALID_SPECIAL_KEYS: validation and reply
HandleParsed(rq, d, f, ks, fault) ==
    IF ~rq.ok THEN [reply |-> "", res |-> FALSE, dirs |-> d, files |-> f, keys |-> ks]
    ELSE Replied(ProcessBarcodeLocally(rq.barcode, rq.button, d, f, ks, fault))

----------------------------------------------------------------------------
(* Client: the administrative wipe, main.py lines 162-184 *)

\* os.listdir(BARCODE_DIR)
ListDir(d, f) == {p[1] : p \in {q \in d \cup f : Len(q) = 1}}

\* the store after the loop of lines 170-181 removed the items in gone, and the
\* files beneath the items in emptied
Removed(d, f, gone, emptied) ==
    [dirs  |-> {p \in d : p = << >> \/ p[1] \notin gone},
     files |-> {p \in f : p[1] \notin gone /\ ~(p[1] \in emptied /\ Len(p) > 1)}]

\* a bug: the first removal that raises ends the wipe
DeleteDatabase_StopOnError(d, f, failing, emptied) ==
    IF ~IsDir(d, << >>) \/ failing # {} THEN [dirs |-> d, files |-> f]
    ELSE Removed(d, f, {n \in ListDir(d, f) : n \notin FILES_TO_KEEP}, {})

\* delete_database: every top-level item not in FILES_TO_KEEP is removed, with all
\* beneath it (shutil.rmtree / os.remove); for the items in failing the removal
\* raises OSError and the item stays: as it was, or, for a directory in emptied,
\* with the files beneath it already removed by rmtree
DeleteDatabase(d, f, failing, emptied) ==
    IF ~IsDir(d, << >>) THEN [dirs |-> d, files |-> f]
    ELSE Removed(d, f, {n \in ListDir(d, f) : n \notin FILES_TO_KEEP /\ n \notin failing},
                 emptied \cap failing)

----------------------------------------------------------------------------
(* Inputs: the barcodes, request texts and environment faults the model draws from *)

Key1 == <<"1","1","1","1","1">>
Key2 == <<"2","2","2","2","2">>
Num1 == <<"0","0","0","0","0","0","0","0","0","1">>
Num2 == <<"0","0","0","0","0","0","0","0","0","2">>
Reg1 == <<"0","1">>
Site1 == <<"0","0","1">>
Site2 == <<"0","0","2">>

CodeA == Key1 \o Num1 \o Reg1 \o Site1
CodeB == Key1 \o Num2 \o Reg1 \o Site1
CodeC == Key2 \o Num1 \o Reg1 \o Site2
MasterA == MASTER_KEY_PREFIX \o Site1 \o MASTER_KEY_SUFFIX
MasterC == MASTER_KEY_PREFIX \o Site2 \o MASTER_KEY_SUFFIX
ShortCode == SubSeq(CodeA, 1, 19)
LetterCode == SubSeq(CodeA, 1, 19) \o <<"x">>
SuperscriptCode == SubSeq(CodeC, 1, 19) \o <<"²">>

\* what the decoder can put on the queue: texts of the characters 0-9
ScannedCodes == {CodeA, CodeB, CodeC, MasterA, MasterC, ShortCode}

Request(code, flag) == code \o <<":">> \o flag

\* what a TCP peer can send
Requests ==
    {Request(c, fl) : c \in {CodeA, CodeB}, fl \in {TrueText, FalseText}}
    \cup {Request(MasterA, FalseText), Request(LetterCode, TrueText),
          Request(SuperscriptCode, TrueText), Request(SuperscriptCode, FalseText),
          Request(CodeB, NoneText), Request(CodeB, <<"t","r","u","e">>), CodeB,
          Request(CodeA, TrueText) \o <<"\n">>, << >>, <<" ", "\n">>, <<InvalidByte>>}

\* the requests that arrive while the handler threads are followed step by step
ThreadRequests ==
    {Request(CodeA, TrueText), Request(CodeA, FalseText), Request(CodeB, FalseText),
     Request(MasterA, FalseText), Request(ShortCode, TrueText), << >>}

\* each request text as handle() parses it
Parsed == [data \in Requests \cup ThreadRequests |-> ParseRequest(data)]

\* the faults the environment raises inside create_barcode_file: none, the first
\* mkdir fails (nothing is created), open fails (the directories are created)
FaultKinds == {"no_fault", "oserror_mkdir1", "oserror_open"}

BeepMp3 == <<"b","e","e","p",".","m","p","3">>
SoundMp3 == <<"s","o","u","n","d",".","m","p","3">>

----------------------------------------------------------------------------
(* State *)

Threads == {"t1", "t2"}

NoOp ==
    [op |-> "none", proc |-> "client", data |-> << >>, barcode |-> << >>,
     button |-> FALSE, verdict |-> "none", fault |-> "no_fault", res |-> FALSE,
     reply |-> "", repeat |-> FALSE, failing |-> {}, gone |-> {}]

NoLocals == [data |-> << >>, barcode |-> << >>, button |-> FALSE, is_valid |-> FALSE]

\* the installed tree: the sounds folder and the program, no site yet
InitFs ==
    /\ dirs = {<< >>, <<SoundsName>>}
    /\ files = {<<SoundsName, BeepMp3>>, <<SoundsName, SoundMp3>>, <<MainPyName>>}
    /\ keys = [p \in Procs |-> SeedKeys]
    /\ last = NoOp

InitThreads ==
    /\ hpc = [t \in Threads |-> "idle"]
    /\ hloc = [t \in Threads |-> NoLocals]
    /\ opened = [c \in {Parsed[data].barcode : data \in ThreadRequests} |-> 0]

NoScan ==
    [barcode |-> << >>, branch |-> "none", probe |-> FALSE, route |-> "none",
     decision |-> "none", gate |-> FALSE, sound |-> ""]

\* Client.__init__ (lines 152-159) and the locals of Client.start (lines 279-286)
InitClient ==
    /\ pressed = FALSE
    /\ pressed_at = << >>
    /\ queue = << >>
    /\ last_barcode = << >>
    /\ button_held_start_time = << >>
    /\ db_deleted_this_hold = FALSE
    /\ now = 0
    /\ cpc = "scan"
    /\ fx = NoScan

\* the report observed before the reader has done anything
NoReport == [op |-> "none", data |-> << >>, dropped |-> << >>]

\* reader_process at line 245, the scanner not plugged in
InitReader ==
    /\ device = "absent"
    /\ dev = FALSE
    /\ rpc = "acquire"
    /\ barcode_chars = << >>
    /\ received = << >>
    /\ report = NoReport

\* the GPIO pins could be set up
Init == InitFs /\ InitThreads /\ InitClient /\ InitReader /\ gpio = "gate_and_button"

\* Client.__init__: LED(...) or Button(...) may raise, and what was not set stays None
GpioStates == {"gate_and_button", "gate_only", "neither"}
InitAnyGpio == InitFs /\ InitThreads /\ InitClient /\ InitReader /\ gpio \in GpioStates

\* the faults that can occur in a call: none unless create_barcode_file is reached
FaultsOf(verdict) == IF verdict = "create" THEN FaultKinds ELSE {"no_fault"}

\* the fault that did occur: create_barcode_file was called and returned False
Raised(verdict, res, fault) == IF verdict = "create" /\ ~res THEN fault ELSE "no_fault"

\* observation: this call repeats the call before it, which admitted
Repeats(barcode, button) ==
    /\ last.op \in {"decide", "handle"}
    /\ last.verdict # "none"
    /\ last.barcode = barcode
    /\ last.button = button
    /\ last.res

----------------------------------------------------------------------------
(* Spec: the operations, each as one step *)

\* the state after a call in process proc returned r; obs is what is observed of it
Decided(proc, r, obs) ==
    /\ dirs' = r.dirs
    /\ files' = r.files
    /\ keys' = [keys EXCEPT ![proc] = r.keys]
    /\ last' = [obs EXCEPT !.proc = proc, !.res = r.res,
                           !.fault = Raised(obs.verdict, r.res, obs.fault)]
    /\ UNCHANGED <<hpc, hloc, opened, clivars, rdrvars>>

\* what is observed of a request: its text, its parts, its validation, its reply
Observed(op, data, rq, verdict, fault, reply) ==
    [op |-> op, proc |-> "client", data |-> data, barcode |-> rq.barcode,
     button |-> rq.button, verdict |-> verdict, fault |-> fault, res |-> FALSE,
     reply |-> reply, failing |-> {}, gone |-> {},
     repeat |-> verdict # "none" /\ Repeats(rq.barcode, rq.button)]

\* a call of process_barcode_locally in the client process (send_data, line 209)
LocalDecide ==
    \E c \in ScannedCodes, b \in BOOLEAN :
        \E fault \in FaultsOf(Validate(c, b, dirs, files, keys["client"]).verdict) :
            Decided("client",
                    ProcessBarcodeLocally(c, b, dirs, files, keys["client"], fault),
                    Observed("decide", << >>, [barcode |-> c, button |-> b],
                             Validate(c, b, dirs, files, keys["client"]).verdict,
                             fault, ""))

\* the verdict of the validation handle() runs for a parsed request
RequestVerdict(rq, d, f, ks) ==
    IF rq.ok THEN Validate(rq.barcode, rq.button, d, f, ks).verdict ELSE "none"

\* one request handled by the server process, start to end
Handle ==
    \E data \in Requests :
        \E fault \in FaultsOf(RequestVerdict(Parsed[data], dirs, files, keys["server"])) :
            Decided("server",
                    HandleParsed(Parsed[data], dirs, files, keys["server"], fault),
                    Observed("handle", data, Parsed[data],
                             RequestVerdict(Parsed[data], dirs, files, keys["server"]),
                             fault,
                             HandleParsed(Parsed[data], dirs, files, keys["server"],
                                          fault).reply))

\* the state after delete_database left the store as r; failing and what is gone
\* are observed
Wiped(r, failing) ==
    /\ dirs' = r.dirs
    /\ files' = r.files
    /\ last' = [NoOp EXCEPT !.op = "wipe", !.failing = failing,
                            !.gone = ListDir(dirs, files) \ ListDir(r.dirs, r.files)]
    /\ UNCHANGED <<keys, hpc, hloc, opened, clivars, rdrvars>>

\* the administrative wipe run by the client's loop (line 314)
Wipe ==
    \E failing \in SUBSET (ListDir(dirs, files) \ FILES_TO_KEEP) :
        \E emptied \in SUBSET failing :
            Wiped(DeleteDatabase(dirs, files, failing, emptied), failing)

Next == LocalDecide \/ Handle \/ Wipe

Spec == Init /\ [][Next]_vars

----------------------------------------------------------------------------
(* SpecThreads: ThreadedTCPServer, one thread per request; the threads interleave
   at the calls that read or write the filesystem *)

\* recv, parse, and process_barcode_locally up to its return or its call of
\* create_barcode_file (lines 124-134, 60-106)
HRecv(t) ==
    /\ hpc[t] = "idle"
    /\ \E data \in ThreadRequests :
        LET rq == Parsed[data]
            v  == Validate(rq.barcode, rq.button, dirs, files, keys["server"])
        IN  IF ~rq.ok
            THEN UNCHANGED <<hpc, hloc, keys>>
            ELSE /\ keys' = [keys EXCEPT !["server"] = v.keys]
                 /\ hloc' = [hloc EXCEPT ![t] = [data |-> data, barcode |-> rq.barcode,
                                                 button |-> rq.button,
                                                 is_valid |-> v.verdict = "admit"]]
                 /\ hpc' = [hpc EXCEPT ![t] = IF v.verdict = "create" THEN "makedirs"
                                               ELSE "reply"]
    /\ UNCHANGED <<dirs, files, last, opened, clivars, rdrvars>>

\* create_barcode_file, line 48: os.makedirs
HMakedirs(t) ==
    /\ hpc[t] = "makedirs"
    /\ \E fault \in FaultKinds :
        LET c  == hloc[t].barcode
            md == Makedirs(dirs, files, <<SiteOf(c), SpecialKeyOf(c), RegistryOf(c)>>, fault)
        IN  /\ dirs' = md.dirs
            /\ hpc' = [hpc EXCEPT ![t] = IF md.ok THEN "open" ELSE "reply"]
    /\ UNCHANGED <<files, keys, last, hloc, opened, clivars, rdrvars>>

\* create_barcode_file, lines 49-55: open(..., "w") and the return value
HOpen(t) ==
    /\ hpc[t] = "open"
    /\ \E fault \in FaultKinds :
        LET op == OpenW(dirs, files, BarcodeFilePath(hloc[t].barcode), fault)
        IN  /\ files' = op.files
            /\ hloc' = [hloc EXCEPT ![t].is_valid = op.ok]
    /\ hpc' = [hpc EXCEPT ![t] = "reply"]
    /\ UNCHANGED <<dirs, keys, last, opened, clivars, rdrvars>>

\* line 135: sendall(b"open" if is_valid else b"close"); the thread ends
HReply(t) ==
    /\ hpc[t] = "reply"
    /\ opened' = IF ReplyFor(hloc[t].is_valid) = "open" /\ ~hloc[t].button
                    /\ opened[hloc[t].barcode] < MaxOpened
                 THEN [opened EXCEPT ![hloc[t].barcode] = @ + 1]
                 ELSE opened
    /\ hpc' = [hpc EXCEPT ![t] = "idle"]
    /\ hloc' = [hloc EXCEPT ![t] = NoLocals]
    /\ UNCHANGED <<dirs, files, keys, last, clivars, rdrvars>>

NextThreads == \E t \in Threads : HRecv(t) \/ HMakedirs(t) \/ HOpen(t) \/ HReply(t)

SpecThreads == Init /\ [][NextThreads]_vars

----------------------------------------------------------------------------
(* Client: send_data and the scan loop, main.py lines 186-235 and 277-319 *)

\* self.config_button and self.config_button.is_pressed (lines 292, 308): None
\* when the button could not be set up
ButtonValue == IF gpio # "gate_and_button" THEN "None" ELSE IF pressed THEN "True" ELSE "False"

Truthy(b) == b = "True"

\* f"{button_is_pressed}" (line 223)
FlagText(b) == IF b = "True" THEN TrueText ELSE IF b = "False" THEN FalseText ELSE NoneText

\* play_sound: the sound is played when its file exists
PlaySound(f, name) ==
    IF <<SoundsName, IF name = "beep" THEN BeepMp3 ELSE SoundMp3>> \in f THEN name ELSE ""

\* open_gate: the gate is pulsed when self.gate was set up
OpenGate == gpio # "neither"

\* a bug: everything but an explicit "close" opens the gate
RemoteFeedback_OpenUnlessClose(f, response) ==
    IF response # "close" THEN [gate |-> OpenGate, sound |-> PlaySound(f, "sound")]
    ELSE [gate |-> FALSE, sound |-> PlaySound(f, "beep")]

\* lines 231-235: the side effects of the server's response
RemoteFeedback(f, response) ==
    IF response = "open" THEN [gate |-> OpenGate, sound |-> PlaySound(f, "sound")]
    ELSE IF response = "close" THEN [gate |-> FALSE, sound |-> PlaySound(f, "beep")]
    ELSE [gate |-> FALSE, sound |-> ""]

\* lines 210-214: the side effects of the local result
LocalFeedback(f, is_valid_locally) ==
    IF is_valid_locally THEN [gate |-> OpenGate, sound |-> PlaySound(f, "sound")]
    ELSE [gate |-> FALSE, sound |-> PlaySound(f, "beep")]

TransportKinds ==
    {"delivered", "error_before_request", "error_after_request", "closed_without_reply"}

\* send_data, lines 209-215: loc is the result of process_barcode_locally
SendLocal(loc, ks) ==
    [dirs |-> loc.dirs, files |-> loc.files, keys |-> [ks EXCEPT !["client"] = loc.keys],
     route |-> "local", decision |-> IF loc.res THEN "admit" ELSE "deny",
     gate |-> LocalFeedback(loc.files, loc.res).gate,
     sound |-> LocalFeedback(loc.files, loc.res).sound]

\* what recv returns (line 225) when the exchange does not raise
ResponseOf(srv, transport) == IF transport = "delivered" THEN srv.reply ELSE ""

\* send_data, lines 219-235, once the request has reached the server: srv is what
\* the handler did with it
SendRemote(srv, transport, ks) ==
    [dirs |-> srv.dirs, files |-> srv.files, keys |-> [ks EXCEPT !["server"] = srv.keys],
     route |-> "remote",
     decision |-> IF transport = "error_after_request" THEN "fault"
                  ELSE IF ResponseOf(srv, transport) = "open" THEN "admit"
                  ELSE IF ResponseOf(srv, transport) = "close" THEN "deny"
                  ELSE "no_reply",
     gate |-> IF transport = "error_after_request" THEN FALSE
              ELSE RemoteFeedback(srv.files, ResponseOf(srv, transport)).gate,
     sound |-> IF transport = "error_after_request" THEN ""
               ELSE RemoteFeedback(srv.files, ResponseOf(srv, transport)).sound]

\* a bug: when the connection fails, the scan is decided by the local engine
SendData_LocalFallback(data, b, reachable, transport, fault, d, f, ks) ==
    [probe |-> reachable] @@
    (IF ~reachable \/ transport = "error_before_request"
     THEN SendLocal(ProcessBarcodeLocally(data, Truthy(b), d, f, ks["client"], fault), ks)
     ELSE SendRemote(HandleParsed(ParseRequest(Request(data, FlagText(b))),
                                  d, f, ks["server"], fault),
                     transport, ks))

\* send_data. reachable is the result of ping_server; transport tells how the exchange
\* with the server goes: the reply is delivered, socket.error is raised before the
\* server has handled the request or after it, or the connection is closed with
\* nothing sent and recv returns ""; fault is the storage fault met by the validation.
SendData(data, b, reachable, transport, fault, d, f, ks) ==
    [probe |-> reachable] @@
    (IF ~reachable
     THEN SendLocal(ProcessBarcodeLocally(data, Truthy(b), d, f, ks["client"], fault), ks)
     ELSE IF transport = "error_before_request"
     THEN [dirs |-> d, files |-> f, keys |-> ks, route |-> "remote",
           decision |-> "fault", gate |-> FALSE, sound |-> ""]
     ELSE SendRemote(HandleParsed(ParseRequest(Request(data, FlagText(b))),
                                  d, f, ks["server"], fault),
                     transport, ks))

\* a bug: the duplicate check is skipped
ScanBranch_NoDedup(barcode, b, lb) ==
    IF IsMasterKey(barcode) \/ Truthy(b) THEN "bypass" ELSE "dispatch"

\* lines 293-305: which branch a scanned barcode takes
ScanBranch(barcode, b, lb) ==
    IF IsMasterKey(barcode) \/ Truthy(b) THEN "bypass"
    ELSE IF <<barcode>> # lb THEN "dispatch"
    ELSE "suppress"

\* a bug: a master key is remembered like any other code
NextLastBarcode_MasterRemembered(barcode, branch, lb) ==
    IF branch = "suppress" THEN lb ELSE <<barcode>>

\* lines 298-302: last_barcode after the branch
NextLastBarcode(barcode, branch, lb) ==
    IF branch = "bypass" THEN (IF ~IsMasterKey(barcode) THEN <<barcode>> ELSE lb)
    ELSE IF branch = "dispatch" THEN <<barcode>>
    ELSE lb

\* the validation an exchange runs, to tell which storage faults can be met
VerdictOf(data, b, reachable, d, f, ks) ==
    IF reachable
    THEN Validate(data, ParseRequest(Request(data, FlagText(b))).button, d, f, ks["server"]).verdict
    ELSE Validate(data, Truthy(b), d, f, ks["client"]).verdict

\* the reader process puts a scanned barcode on the queue (line 267)
ReaderPut(codes) ==
    /\ Len(queue) < MaxQueue
    /\ \E c \in codes : queue' = Append(queue, c)
    /\ UNCHANGED <<fsvars, srvvars, rdrvars, gpio, pressed, pressed_at, last_barcode,
                   button_held_start_time, db_deleted_this_hold, now, cpc, fx>>

\* the operator presses or releases the config button
Press ==
    /\ gpio = "gate_and_button" /\ ~pressed
    /\ pressed' = TRUE
    /\ pressed_at' = <<now>>
    /\ UNCHANGED <<fsvars, srvvars, rdrvars, gpio, queue, last_barcode, button_held_start_time,
                   db_deleted_this_hold, now, cpc, fx>>

Release ==
    /\ pressed
    /\ pressed' = FALSE
    /\ pressed_at' = << >>
    /\ UNCHANGED <<fsvars, srvvars, rdrvars, gpio, queue, last_barcode, button_held_start_time,
                   db_deleted_this_hold, now, cpc, fx>>

\* time passes (time.time(), lines 310 and 312): half the hold threshold, or all of it
TickSteps == {HOLD_SECONDS \div 2, HOLD_SECONDS}

Tick(seconds) ==
    /\ now + seconds <= MaxTime
    /\ now' = now + seconds
    /\ UNCHANGED <<fsvars, srvvars, rdrvars, gpio, pressed, pressed_at, queue, last_barcode,
                   button_held_start_time, db_deleted_this_hold, cpc, fx>>

\* lines 297 and 301: the state after self.send_data(barcode, button_is_pressed)
Dispatched(barcode, branch, r) ==
    /\ dirs' = r.dirs
    /\ files' = r.files
    /\ keys' = r.keys
    /\ fx' = [barcode |-> barcode, branch |-> branch, probe |-> r.probe, route |-> r.route,
              decision |-> r.decision, gate |-> r.gate, sound |-> r.sound]

\* lines 290-305: one pass over "Handle Scanned Barcodes"
LoopScan ==
    /\ cpc = "scan"
    /\ cpc' = "hold"
    /\ IF queue = << >>
       THEN UNCHANGED <<fsvars, queue, last_barcode, fx>>
       ELSE LET barcode == Head(queue)
                b       == ButtonValue
                branch  == ScanBranch(barcode, b, last_barcode)
            IN  /\ queue' = Tail(queue)
                /\ last_barcode' = NextLastBarcode(barcode, branch, last_barcode)
                /\ IF branch = "suppress"
                   THEN /\ fx' = [NoScan EXCEPT !.barcode = barcode, !.branch = branch,
                                                !.sound = PlaySound(files, "beep")]
                        /\ UNCHANGED fsvars
                   ELSE \E reachable \in BOOLEAN, transport \in TransportKinds :
                        \E fault \in FaultsOf(VerdictOf(barcode, b, reachable, dirs, files, keys)) :
                            Dispatched(barcode, branch,
                                       SendData(barcode, b, reachable, transport, fault,
                                                dirs, files, keys))
    /\ UNCHANGED <<srvvars, rdrvars, gpio, pressed, pressed_at, button_held_start_time,
                   db_deleted_this_hold, now>>

\* a bug: the wipe also clears the dedup memory
LoopHold_WipeForgets ==
    /\ cpc = "hold"
    /\ cpc' = "scan"
    /\ IF Truthy(ButtonValue)
       THEN LET start == IF button_held_start_time = << >> THEN now
                         ELSE button_held_start_time[1]
                fresh == button_held_start_time = << >>
                wipe  == now - start >= HOLD_SECONDS
                           /\ ~(IF fresh THEN FALSE ELSE db_deleted_this_hold)
            IN  /\ button_held_start_time' = <<start>>
                /\ IF wipe
                   THEN /\ \E failing \in SUBSET (ListDir(dirs, files) \ FILES_TO_KEEP) :
                             \E emptied \in SUBSET failing :
                                /\ dirs' = DeleteDatabase(dirs, files, failing, emptied).dirs
                                /\ files' = DeleteDatabase(dirs, files, failing, emptied).files
                        /\ db_deleted_this_hold' = TRUE
                        /\ last_barcode' = << >>
                   ELSE /\ db_deleted_this_hold' = (IF fresh THEN FALSE ELSE db_deleted_this_hold)
                        /\ UNCHANGED <<dirs, files, last_barcode>>
       ELSE /\ button_held_start_time' = << >>
            /\ UNCHANGED <<dirs, files, db_deleted_this_hold, last_barcode>>
    /\ UNCHANGED <<keys, srvvars, rdrvars, gpio, pressed, pressed_at, queue, now, fx>>

\* lines 308-319: one pass over the button hold, then the sleep; failing are the
\* top-level items whose removal raises OSError
LoopHold ==
    /\ cpc = "hold"
    /\ cpc' = "scan"
    /\ IF Truthy(ButtonValue)
       THEN LET start == IF button_held_start_time = << >> THEN now
                         ELSE button_held_start_time[1]
                fresh == button_held_start_time = << >>
                wipe  == now - start >= HOLD_SECONDS
                           /\ ~(IF fresh THEN FALSE ELSE db_deleted_this_hold)
            IN  /\ button_held_start_time' = <<start>>
                /\ IF wipe
                   THEN /\ \E failing \in SUBSET (ListDir(dirs, files) \ FILES_TO_KEEP) :
                             \E emptied \in SUBSET failing :
                                /\ dirs' = DeleteDatabase(dirs, files, failing, emptied).dirs
                                /\ files' = DeleteDatabase(dirs, files, failing, emptied).files
                        /\ db_deleted_this_hold' = TRUE
                   ELSE /\ db_deleted_this_hold' = (IF fresh THEN FALSE ELSE db_deleted_this_hold)
                        /\ UNCHANGED <<dirs, files>>
       ELSE /\ button_held_start_time' = << >>
            /\ UNCHANGED <<dirs, files, db_deleted_this_hold>>
    /\ UNCHANGED <<keys, srvvars, rdrvars, gpio, pressed, pressed_at, queue, last_barcode, now, fx>>

\* what the scanner delivers while the client's loop is followed
ClientCodes == {CodeA, CodeB, MasterA}

NextClient ==
    \/ ReaderPut(ClientCodes)
    \/ Press
    \/ Release
    \/ \E seconds \in TickSteps : Tick(seconds)
    \/ LoopScan
    \/ LoopHold

SpecClient == InitAnyGpio /\ [][NextClient]_vars

----------------------------------------------------------------------------
(* SpecReader: reader_process, main.py lines 237-274, fed by the scanner's reports *)

KEYCODE_MAP ==
    (30 :> "1") @@ (31 :> "2") @@ (32 :> "3") @@ (33 :> "4") @@ (34 :> "5") @@
    (35 :> "6") @@ (36 :> "7") @@ (37 :> "8") @@ (38 :> "9") @@ (39 :> "0")

\* what dev.read can return: the keys 1 and 0, Enter, a two-byte report, a report
\* whose third byte is 0, the key a, and no data at all
Reports ==
    {<<0, 0, 30>>, <<0, 0, 39>>, <<0, 0, ENTER_KEYCODE>>, <<0, ENTER_KEYCODE>>,
     <<0, 0, 0, 30>>, <<0, 0, 4>>, << >>}

DeviceStates == {"absent", "ok", "faulty"}

\* a bug: Enter leaves the buffer as it is
OnReport_KeepBuffer(chars, data) ==
    IF data = << >> \/ Len(data) < 3 \/ data[3] = 0 THEN [chars |-> chars, put |-> << >>]
    ELSE IF data[3] = ENTER_KEYCODE THEN [chars |-> chars, put |-> <<chars>>]
    ELSE IF data[3] \in DOMAIN KEYCODE_MAP
    THEN [chars |-> Append(chars, KEYCODE_MAP[data[3]]), put |-> << >>]
    ELSE [chars |-> chars, put |-> << >>]

\* lines 262-271: what one report does to barcode_chars, and what is put on the queue
OnReport(chars, data) ==
    IF data = << >> \/ Len(data) < 3 \/ data[3] = 0 THEN [chars |-> chars, put |-> << >>]
    ELSE IF data[3] = ENTER_KEYCODE THEN [chars |-> << >>, put |-> <<chars>>]
    ELSE IF data[3] \in DOMAIN KEYCODE_MAP
    THEN [chars |-> Append(chars, KEYCODE_MAP[data[3]]), put |-> << >>]
    ELSE [chars |-> chars, put |-> << >>]

\* a bug: the buffer outlives the device it was read from
SetupChars_Kept(chars) == chars

\* line 259: barcode_chars = []
SetupChars(chars) == << >>

\* a bug: the loop ends on USBError
AfterUSBError_Exit == [dev |-> FALSE, rpc |-> "exited"]

\* lines 272-274: dev = None, and after the sleep the loop is at line 247 again
AfterUSBError == [dev |-> FALSE, rpc |-> "acquire"]

\* observation: the report has a keycode of the digit table / is Enter
IsDigitReport(data) == Len(data) >= 3 /\ data[3] \in 30..39
IsEnterReport(data) == Len(data) >= 3 /\ data[3] = ENTER_KEYCODE

\* lines 247-252: get_scanner, and the retry after 5 seconds when nothing is found
RAcquire ==
    /\ rpc = "acquire"
    /\ IF device = "absent" THEN UNCHANGED <<dev, rpc>>
       ELSE dev' = TRUE /\ rpc' = "setup"
    /\ report' = [NoReport EXCEPT !.op = "acquire"]
    /\ UNCHANGED <<fsvars, srvvars, clivars, device, barcode_chars, received>>

\* the except clause taken from the try block
RFault ==
    /\ dev' = AfterUSBError.dev
    /\ rpc' = AfterUSBError.rpc
    /\ report' = [NoReport EXCEPT !.op = "fault"]
    /\ UNCHANGED <<fsvars, srvvars, clivars, device, barcode_chars, received>>

\* lines 254-259: the device is configured and the buffer starts empty; USBError
\* when the device has gone or does not answer
RSetup ==
    /\ rpc = "setup"
    /\ IF device = "ok"
       THEN /\ rpc' = "read"
            /\ barcode_chars' = SetupChars(barcode_chars)
            /\ received' = << >>
            /\ report' = [NoReport EXCEPT !.op = "setup", !.dropped = barcode_chars]
            /\ UNCHANGED <<fsvars, srvvars, clivars, device, dev>>
       ELSE RFault

\* the state after dev.read returned data
ReadDone(data, r) ==
    /\ Len(r.chars) <= MaxChars
    /\ r.put # << >> => Len(queue) < MaxQueue
    /\ barcode_chars' = r.chars
    /\ queue' = queue \o r.put
    /\ received' = IF IsEnterReport(data) THEN << >>
                   ELSE IF IsDigitReport(data) THEN Append(received, data)
                   ELSE received
    /\ report' = [NoReport EXCEPT !.op = "read", !.data = data]
    /\ UNCHANGED <<fsvars, srvvars, gpio, pressed, pressed_at, last_barcode,
                   button_held_start_time, db_deleted_this_hold, now, cpc, fx,
                   device, dev, rpc>>

\* lines 261-271: one report is read and handled; USBError when the device has
\* gone or does not answer
RRead ==
    /\ rpc = "read"
    /\ IF device = "ok"
       THEN \E data \in Reports : ReadDone(data, OnReport(barcode_chars, data))
       ELSE RFault

\* the scanner is plugged in or pulled out, or starts or stops answering
DeviceChange ==
    /\ \E d \in DeviceStates \ {device} : device' = d
    /\ report' = [NoReport EXCEPT !.op = "device"]
    /\ UNCHANGED <<fsvars, srvvars, clivars, dev, rpc, barcode_chars, received>>

\* the client's loop takes a barcode from the queue (line 291)
QueueGet ==
    /\ queue # << >>
    /\ queue' = Tail(queue)
    /\ report' = [NoReport EXCEPT !.op = "get"]
    /\ UNCHANGED <<fsvars, srvvars, gpio, pressed, pressed_at, last_barcode,
                   button_held_start_time, db_deleted_this_hold, now, cpc, fx,
                   device, dev, rpc, barcode_chars, received>>

NextReader == RAcquire \/ RSetup \/ RRead \/ DeviceChange \/ QueueGet

SpecReader == Init /\ [][NextReader]_vars

\* the reader process keeps running: its loop is not starved at lines 247-259
SpecReaderLive == SpecReader /\ WF_vars(RAcquire) /\ WF_vars(RSetup)

----------------------------------------------------------------------------
(* Vocabulary of the claims *)

\* exactly 20 characters, each one of 0-9
TwentyDecimalDigits(c) == Len(c) = 20 /\ \A i \in 1..Len(c) : c[i] \in AsciiDigits

\* the step is a call of process_barcode_locally (in either process)
DecideStep == last'.op \in {"decide", "handle"} /\ last'.verdict # "none"

\* the marker files of the store: the tuples that are present
Tuples(f) == {p \in f : Len(p) = 4}

\* the site directory and the key of the calling process, before the step
SiteKnown(c) == IsDir(dirs, <<SiteOf(c)>>)
KeyKnown(c) == SpecialKeyOf(c) \in keys[last'.proc]
Present(c) == BarcodeFilePath(c) \in files

StoreUnchanged == dirs' = dirs /\ files' = files

----------------------------------------------------------------------------
(* C2: anti-replay in normal mode *)

\* C2 as stated: for every code c of 20 decimal digits that is no master key and
\* whose tuple is not in the store, decide(c, False) admits and inserts the tuple,
\* and an immediately following decide(c, False) denies and leaves the store unchanged.
C2_Original ==
    [][ (DecideStep /\ ~last'.button /\ TwentyDecimalDigits(last'.barcode)
            /\ ~IsMasterKey(last'.barcode))
        => /\ ~Present(last'.barcode)
                => (last'.res /\ BarcodeFilePath(last'.barcode) \in files')
           /\ last'.repeat => (~last'.res /\ StoreUnchanged) ]_vars

\* C2 amended: for every code c of 20 decimal digits that is no master key, whose
\* tuple is not in the store, whose site directory exists and whose special key is
\* in the caller's known keys, decide(c, False) admits and inserts the tuple unless
\* the insert raises a storage error; it admits in no other case; and a
\* decide(c, False) that immediately follows an admitting decide(c, False) denies
\* and leaves the store unchanged.
C2_AntiReplay ==
    [][ (DecideStep /\ ~last'.button /\ TwentyDecimalDigits(last'.barcode)
            /\ ~IsMasterKey(last'.barcode))
        => /\ (~Present(last'.barcode) /\ SiteKnown(last'.barcode)
                  /\ KeyKnown(last'.barcode) /\ last'.fault = "no_fault")
                => (last'.res /\ BarcodeFilePath(last'.barcode) \in files')
           /\ last'.res
                => (~Present(last'.barcode) /\ SiteKnown(last'.barcode)
                      /\ KeyKnown(last'.barcode)
                      /\ files' = files \cup {BarcodeFilePath(last'.barcode)})
           /\ last'.repeat => (~last'.res /\ StoreUnchanged) ]_vars

\* a decide(c, False) right after an admitting decide(c, False) has denied
C2_Witness ==
    /\ last.op \in {"decide", "handle"}
    /\ last.repeat /\ ~last.button /\ ~last.res
    /\ TwentyDecimalDigits(last.barcode) /\ ~IsMasterKey(last.barcode)
    /\ BarcodeFilePath(last.barcode) \in files

----------------------------------------------------------------------------
(* C3: override *)

\* C3 as stated: for every code, decide(code, True) admits whatever the store holds,
\* with exactly one insert of the tuple when it is absent and none when it is present.
C3_Original ==
    [][ (DecideStep /\ last'.button)
        => /\ last'.res
           /\ Present(last'.barcode) => files' = files
           /\ ~Present(last'.barcode)
                => files' = files \cup {BarcodeFilePath(last'.barcode)} ]_vars

\* C3 amended: for every code of 20 decimal digits that is no master key,
\* decide(code, True) admits unless the insert raises a storage error, and then it
\* denies and inserts nothing; an admitting call inserts exactly the decomposed
\* tuple when it was absent, and a call for a tuple that is present admits and
\* changes neither the store nor the known keys.
C3_Override ==
    [][ (DecideStep /\ last'.button /\ TwentyDecimalDigits(last'.barcode)
            /\ ~IsMasterKey(last'.barcode))
        => /\ last'.fault = "no_fault" => last'.res
           /\ Present(last'.barcode) => (last'.res /\ StoreUnchanged /\ keys' = keys)
           /\ (~Present(last'.barcode) /\ last'.res)
                => /\ files' = files \cup {BarcodeFilePath(last'.barcode)}
                   /\ Cardinality(Tuples(files')) = Cardinality(Tuples(files)) + 1
           /\ ~last'.res => files' = files ]_vars

\* an override call has admitted a code whose site and key were new, and inserted it
C3_Witness ==
    /\ last.op \in {"decide", "handle"}
    /\ last.button /\ last.res /\ last.verdict = "create"
    /\ TwentyDecimalDigits(last.barcode) /\ ~IsMasterKey(last.barcode)
    /\ BarcodeFilePath(last.barcode) \in files

----------------------------------------------------------------------------
(* C4: master key *)

\* C4 as stated: for a master key of 20 digits, and both override values, decide
\* admits iff the embedded site has at least one tuple in the store, and the call
\* changes neither the store nor the known keys.
C4_Claim ==
    [][ (DecideStep /\ TwentyDecimalDigits(last'.barcode) /\ IsMasterKey(last'.barcode))
        => /\ last'.res
                <=> (\E p \in Tuples(files) : p[1] = SiteFromMaster(last'.barcode))
           /\ StoreUnchanged
           /\ keys' = keys ]_vars

----------------------------------------------------------------------------
(* C5: malformed codes *)

\* C5 as stated: a code whose length is not 20 or that holds a character other than
\* a decimal digit is denied for both override values, and the call changes neither
\* the store nor the known keys.
C5_Claim ==
    [][ (DecideStep /\ ~TwentyDecimalDigits(last'.barcode))
        => (~last'.res /\ StoreUnchanged /\ keys' = keys) ]_vars

----------------------------------------------------------------------------
(* C7: malformed requests *)

\* the payload is empty, or its flag is missing or is neither True nor False
MalformedRequest(data) ==
    \/ Strip(data) = << >>
    \/ Len(Split(Strip(data))) < 2
    \/ Split(Strip(data))[2] \notin {TrueText, FalseText}

\* C7 as stated: a request with an empty payload or with a flag that is neither True
\* nor False is never answered "open" and inserts no tuple.
C7_Claim ==
    [][ (last'.op = "handle" /\ MalformedRequest(last'.data))
        => (last'.reply # "open" /\ Tuples(files') = Tuples(files)) ]_vars

----------------------------------------------------------------------------
(* C8: no side effect on deny *)

\* C8 as stated: every call of decide that returns deny leaves the store and the
\* known keys as they were, also when the insert fails.
C8_Claim ==
    [][ (DecideStep /\ ~last'.res) => (StoreUnchanged /\ keys' = keys) ]_vars

----------------------------------------------------------------------------
(* C9: persistence of tuples *)

\* C9: every step other than the administrative wipe keeps every file and directory
\* of the store, and a decide call adds at most the marker file of its code and the
\* directories on the way to it.
C9_Persistence ==
    [][ /\ last'.op # "wipe" => (files \subseteq files' /\ dirs \subseteq dirs')
        /\ DecideStep
             => /\ files' \ files \subseteq {BarcodeFilePath(last'.barcode)}
                /\ dirs' \ dirs \subseteq
                     {SubSeq(BarcodeFilePath(last'.barcode), 1, n) : n \in 1..3} ]_vars

\* a decide call has inserted a tuple next to one that was present, and both are there
C9_Witness ==
    /\ last.op \in {"decide", "handle"}
    /\ last.verdict = "create" /\ last.res
    /\ {BarcodeFilePath(CodeA), BarcodeFilePath(CodeB)} \subseteq files

----------------------------------------------------------------------------
(* C1: check and insert as one step *)

\* C1 as stated: among the requests for one code of 20 decimal digits that is no
\* master key, sent with override False, at most one is answered "open".
C1_Claim ==
    \A c \in DOMAIN opened :
        (TwentyDecimalDigits(c) /\ ~IsMasterKey(c)) => opened[c] <= 1

----------------------------------------------------------------------------
(* C6: the side effects follow the outcome of the scan *)

\* C6: for the scan handled last, the gate is pulsed only on an admit and then with
\* the positive sound; an admit plays the positive sound and pulses the gate when the
\* gate was set up; a deny plays the negative sound only; a transport fault and a
\* connection closed without a reply give neither a pulse nor a sound, and the scan
\* is not decided locally afterwards.
C6_Effects ==
    /\ fx.gate => (fx.decision = "admit" /\ fx.sound = "sound")
    /\ fx.decision = "admit" => (fx.sound = "sound" /\ (fx.gate <=> gpio # "neither"))
    /\ fx.decision = "deny" => (~fx.gate /\ fx.sound = "beep")
    /\ fx.decision \in {"fault", "no_reply"}
         => (~fx.gate /\ fx.sound = "" /\ fx.route = "remote")
    /\ fx.branch \in {"bypass", "dispatch"}
         <=> fx.decision \in {"admit", "deny", "fault", "no_reply"}

\* the server has answered "open" and the gate was pulsed
C6_Witness ==
    /\ fx.route = "remote" /\ fx.decision = "admit"
    /\ fx.gate /\ fx.sound = "sound"

----------------------------------------------------------------------------
(* C10: duplicate suppression *)

\* C10: when the loop takes a barcode c that is no master key from the queue with
\* the override not set, and the scan it handled before was c too, then the scan is
\* suppressed: no probe, no local or remote decision, no gate pulse, no change of
\* the store or the known keys, only the negative sound; and the dedup memory is c
\* before and after.
C10_Suppressed ==
    [][ (cpc = "scan" /\ cpc' = "hold" /\ queue # << >>
            /\ fx.branch # "none" /\ fx.barcode = Head(queue)
            /\ ~IsMasterKey(Head(queue)) /\ ~Truthy(ButtonValue))
        => /\ fx' = [NoScan EXCEPT !.barcode = Head(queue), !.branch = "suppress",
                                   !.sound = "beep"]
           /\ last_barcode = <<Head(queue)>>
           /\ last_barcode' = last_barcode
           /\ UNCHANGED fsvars ]_vars

\* the loop has suppressed a second scan of CodeA
C10_Witness ==
    /\ fx.branch = "suppress" /\ fx.barcode = CodeA /\ fx.sound = "beep"
    /\ fx.route = "none" /\ ~fx.gate
    /\ last_barcode = <<CodeA>>

----------------------------------------------------------------------------
(* The administrative wipe and the button hold *)

\* the step is a pass over lines 308-317 that calls delete_database (line 314)
WipeStep ==
    /\ cpc = "hold" /\ cpc' = "scan"
    /\ Truthy(ButtonValue)
    /\ button_held_start_time # << >>
    /\ ~db_deleted_this_hold /\ db_deleted_this_hold'

\* C11: a wipe is performed only when the override input has been held down
\* continuously for at least 10 s: a release resets the timer, so a hold shorter
\* than 10 s never triggers a wipe and shorter holds do not accumulate.
C11_Claim ==
    [][WipeStep => pressed_at # << >> /\ now - pressed_at[1] >= HOLD_SECONDS]_vars

\* the paths of S at or beneath the top-level entry n
Under(n, S) == {p \in S : p # << >> /\ p[1] = n}

\* C12: the wipe keeps every top-level entry named in the allow-list, untouched
\* with everything beneath it, and removes every other top-level entry with
\* everything beneath it at any depth; the entries whose deletion fails do not
\* stop the deletion of the others.
C12_Wipe ==
    [][last'.op = "wipe" =>
         /\ dirs' \subseteq dirs /\ files' \subseteq files
         /\ \A n \in ListDir(dirs, files) :
              /\ n \in FILES_TO_KEEP =>
                    Under(n, dirs') = Under(n, dirs) /\ Under(n, files') = Under(n, files)
              /\ n \notin FILES_TO_KEEP /\ n \notin last'.failing =>
                    Under(n, dirs' \cup files') = {}]_vars

\* a wipe in which the deletion of one site failed, another site was removed, and
\* the sounds folder still holds its file
C12_Witness ==
    /\ last.op = "wipe"
    /\ last.failing # {}
    /\ last.gone # {}
    /\ <<SoundsName, BeepMp3>> \in files
    /\ <<MainPyName>> \in files

----------------------------------------------------------------------------
(* Routing of a dispatched scan *)

\* the step is a pass over lines 290-305 that called send_data
DispatchStep ==
    /\ cpc = "scan" /\ cpc' = "hold"
    /\ queue # << >>
    /\ fx'.branch \in {"bypass", "dispatch"}

\* C13: for a dispatched scan, when the reachability probe returns false the
\* decision is made by the local engine and the server is not contacted (its
\* process does nothing); when the probe returns true the decision comes from the
\* exchange with the server and the local engine is not called, whatever the
\* exchange ends in.
C13_Routing ==
    [][DispatchStep =>
         /\ ~fx'.probe => /\ fx'.route = "local"
                          /\ fx'.decision \in {"admit", "deny"}
                          /\ keys'["server"] = keys["server"]
         /\ fx'.probe => /\ fx'.route = "remote"
                         /\ fx'.decision \in {"admit", "deny", "fault", "no_reply"}
                         /\ keys'["client"] = keys["client"]]_vars

\* a scan whose probe succeeded and whose connection then failed: it ends with no
\* decision, and the local engine has learned nothing
C13_Witness ==
    /\ fx.branch = "dispatch" /\ fx.probe /\ fx.route = "remote" /\ fx.decision = "fault"
    /\ keys["client"] = SeedKeys
    /\ last_barcode = <<CodeA>>

----------------------------------------------------------------------------
(* The lists of known special keys *)

\* C14: handling a request received by the server, whatever its code and override
\* flag, never changes a list of known special keys, and no step ever removes a
\* key from one.
C14_Claim ==
    [][/\ last'.op = "handle" => keys' = keys
       /\ \A p \in Procs : keys[p] \subseteq keys'[p]]_vars

----------------------------------------------------------------------------
(* Bypass of the duplicate check *)

\* the step is a pass over lines 290-305 that took a barcode from the queue
ScanStep == cpc = "scan" /\ cpc' = "hold" /\ queue # << >>

\* C15: a scanned code that has the master key shape, or that is scanned while the
\* sampled override flag is set, is always dispatched, also when it equals the
\* dedup memory; afterwards the dedup memory is the scanned code if the code is not
\* a master key, and is unchanged if it is one.
C15_Bypass ==
    [][ScanStep /\ (IsMasterKey(Head(queue)) \/ Truthy(ButtonValue)) =>
         /\ fx'.barcode = Head(queue)
         /\ fx'.branch = "bypass"
         /\ fx'.route \in {"local", "remote"}
         /\ last_barcode' = IF IsMasterKey(Head(queue)) THEN last_barcode
                            ELSE <<Head(queue)>>]_vars

\* a master key was dispatched after a non-master code, and the dedup memory still
\* holds that code
C15_Witness ==
    /\ fx.branch = "bypass"
    /\ IsMasterKey(fx.barcode)
    /\ fx.route \in {"local", "remote"}
    /\ last_barcode = <<CodeA>>

----------------------------------------------------------------------------
(* The decoder *)

\* the digit characters of a sequence of digit reports, in order
Decode(rs) == [i \in 1..Len(rs) |-> KEYCODE_MAP[rs[i][3]]]

\* the step is a read from the device that returned report'.data
ReadStep == rpc = "read" /\ report'.op = "read"

\* C16: each Enter report emits exactly one code, the in-order concatenation of the
\* digit characters of the digit-keycode reports received since the previous Enter
\* (or since the device was acquired), and empties the buffer; a digit-keycode
\* report appends its digit and emits nothing; a report shorter than 3 bytes, one
\* whose 3rd byte is zero, and any other keycode leave the buffer unchanged and
\* emit nothing.
C16_Decode ==
    [][ReadStep =>
         IF IsEnterReport(report'.data)
         THEN queue' = Append(queue, Decode(received)) /\ barcode_chars' = << >>
         ELSE IF IsDigitReport(report'.data)
         THEN /\ queue' = queue
              /\ barcode_chars' = Append(barcode_chars, KEYCODE_MAP[report'.data[3]])
         ELSE queue' = queue /\ barcode_chars' = barcode_chars]_vars

\* the keys 1, 0 and Enter were read: the code "10" is on the queue and the buffer
\* is empty
C16_Witness ==
    /\ report.op = "read" /\ IsEnterReport(report.data)
    /\ queue = << <<"1", "0">> >>
    /\ barcode_chars = << >>

\* C17 as stated: a USBError in the setup or while streaming drops the device and
\* leads back to the search, and if the device eventually becomes and stays
\* findable the decoder is streaming again, however late a fault strikes.
C17_Original ==
    /\ [][report'.op = "fault" => ~dev' /\ rpc' = "acquire"]_vars
    /\ [](rpc \in {"acquire", "setup", "read"})
    /\ (<>[](device # "absent")) => []<>(rpc = "read")

\* C17: a USBError in the setup or while streaming drops the device and leads back
\* to the search, the loop never ends, and if the device eventually becomes and
\* stays findable and answering the decoder eventually is streaming, for good.
C17_Recovery ==
    /\ [][report'.op = "fault" => ~dev' /\ rpc' = "acquire"]_vars
    /\ [](rpc \in {"acquire", "setup", "read"})
    /\ (<>[](device = "ok")) => <>[](rpc = "read")

\* the decoder streams again after a fault that struck while "1" was accumulated,
\* and an earlier code is on the queue
C17_Witness ==
    /\ rpc = "read" /\ dev /\ device = "ok"
    /\ report.op = "setup" /\ report.dropped = <<"1">>
    /\ queue # << >>

\* C20: when streaming resumes after the device was acquired again the buffer is
\* empty, so digits read before a fault never join digits read after it; and a
\* fault puts no code on the queue.
C20_Discard ==
    [][/\ rpc = "setup" /\ rpc' = "read" => barcode_chars' = << >> /\ queue' = queue
       /\ report'.op = "fault" => queue' = queue /\ rpc' # "read"]_vars

\* streaming resumed with an empty buffer after a fault had struck with two digits
\* accumulated
C20_Witness ==
    /\ rpc = "read" /\ report.op = "setup"
    /\ report.dropped = <<"1", "0">>
    /\ barcode_chars = << >>
    /\ received = << >>

----------------------------------------------------------------------------
(* How a special key becomes known *)

\* C18: with only the seed in its list a process denies every well-formed
\* non-master code in normal mode; a normal-mode admission needs the special key in
\* the list of the process, and a key enters that list only by an override
\* admission in that process that inserted a tuple that was absent; an override
\* call for a present tuple and any normal-mode call add no key and create no site.
C18_Claim ==
    [][DecideStep =>
         /\ ( /\ keys[last'.proc] = SeedKeys /\ ~last'.button
              /\ TwentyDecimalDigits(last'.barcode) /\ ~IsMasterKey(last'.barcode) )
            => ~last'.res
         /\ ~last'.button /\ last'.res /\ ~IsMasterKey(last'.barcode)
            => SpecialKeyOf(last'.barcode) \in keys[last'.proc]
         /\ keys' # keys
            => /\ last'.button /\ last'.res
               /\ ~Present(last'.barcode)
               /\ BarcodeFilePath(last'.barcode) \in files'
               /\ keys' = [keys EXCEPT ![last'.proc] = @ \cup {SpecialKeyOf(last'.barcode)}]
         /\ ~last'.button \/ Present(last'.barcode)
            => keys' = keys /\ ListDir(dirs', {}) = ListDir(dirs, {})]_vars

----------------------------------------------------------------------------
(* What the wipe leaves alone *)

\* C19: the administrative wipe changes only the store: the dedup memory and the
\* lists of known special keys are the same after it as before it (so a duplicate
\* is still suppressed and a learned key is still known), and nothing is queued,
\* dispatched or decided by it.
C19_WipeFrame ==
    [][WipeStep => /\ last_barcode' = last_barcode
                   /\ keys' = keys
                   /\ queue' = queue /\ fx' = fx]_vars

\* after a wipe in the current hold: the site of the code admitted before it is
\* gone, while that code is still the dedup memory and its special key still known
C19_Witness ==
    /\ db_deleted_this_hold /\ button_held_start_time # << >>
    /\ fx.barcode = CodeA /\ fx.route = "local" /\ fx.decision = "admit"
    /\ ~IsDir(dirs, <<Site1>>)
    /\ last_barcode = <<CodeA>>
    /\ Key1 \in keys["client"]
====
